---- MODULE Spec2Model ----
(***************************************************************************)
(* Kanban backend (kanban_app): boards, tasks and comments held in the     *)
(* relational store, and the REST handlers that read and change them.      *)
(* One action per request handler; the variable last holds the request     *)
(* under observation and the response it was given.                        *)
(***************************************************************************)
EXTENDS Integers, FiniteSets, Sequences, TLC

\* ------------------------------------------------------------------ bounds
\* Rows ever created under Spec, which sends every request body.
MaxBoards == 1
MaxTasks == 1
MaxComments == 1
\* Rows ever created under SpecCascade, which sends the bodies that matter to the
\* cascades and to the board list.
CascadeBoards == 2
CascadeTasks == 2
CascadeComments == 2

\* ------------------------------------------------------------------ values
\* The registered users (user_auth_app creates them; kanban_app never deletes one).
Users == {1, 2, 3}
\* A primary key that names no user.
Ghost == Cardinality(Users) + 1
\* A key that the request body does not carry (None); no row has this key.
Absent == 0

PRIORITY_CHOICES == {"low", "medium", "high"}
STATUS_CHOICES == {"to-do", "in-progress", "review", "done"}

VARIABLES boards, tasks, comments, nextBoardId, nextTaskId, nextCommentId, last,
          pending

vars == <<boards, tasks, comments, nextBoardId, nextTaskId, nextCommentId, last,
          pending>>
store == <<boards, tasks, comments, nextBoardId, nextTaskId, nextCommentId>>

\* ------------------------------------------------------------------ requests
NoBody == [board |-> Absent, assignee_id |-> Absent, reviewer_id |-> Absent,
           status |-> "absent", members |-> {Absent},
           title |-> "absent", priority |-> "absent"]

Request(op, actor, id, body, code) ==
    [op |-> op, actor |-> actor, id |-> id, task |-> Absent, body |-> body,
     code |-> code, result |-> <<>>, field |-> "none", counts |-> <<>>]

NoRequest == Request("none", Absent, Absent, NoBody, "none")

\* The board PATCH whose save() is still to come: no request is between its two
\* writes.
NoPatch == [board |-> Absent, actor |-> Absent, title |-> "absent", owner |-> Absent,
           was |-> "absent", had |-> {Absent}, body |-> NoBody]

\* No handler reads last: it is the trace of one request, the one under
\* observation. Any request of a behaviour may be the one traced, and the trace
\* ends there, so every pair of a reachable store and a request is traced once.
Trace(request) ==
    /\ last = NoRequest
    /\ last' \in {NoRequest, request}

\* The HTTP status of each outcome: the exception a handler raises, or the
\* response it returns.
HttpStatus(code) ==
    CASE code = "OK" -> 200
      [] code = "Created" -> 201
      [] code = "NoContent" -> 204
      [] code \in {"ValidationError", "BadRequest"} -> 400
      [] code = "PermissionDenied" -> 403
      [] code = "NotFound" -> 404

\* ------------------------------------------------------------------ store
\* Removing rows: a function restricted to the keys that stay.
Restrict(f, keep) == [k \in keep |-> f[k]]

TasksOfBoard(b) == {t \in DOMAIN tasks : tasks[t].board = b}
CommentsOfTask(t) == {c \in DOMAIN comments : comments[c].task = t}
CommentsOfTasks(ts) == {c \in DOMAIN comments : comments[c].task \in ts}

\* ------------------------------------------------------------------ permissions
\* permissions.py: each class is a predicate of the request method, the actor and
\* the object.

\* Variant: the DELETE rule left out, owner or member for every method.
OwnerOrMemberAnyMethod(method, user, b) ==
    user = boards[b].owner \/ user \in boards[b].members

IsOwnerOrMemberWithDeleteOwnerOnly(method, user, b) ==
    IF method = "DELETE"
    THEN boards[b].owner = user
    ELSE user = boards[b].owner \/ user \in boards[b].members

IsBoardMember(user, t) ==
    user \in boards[tasks[t].board].members

IsTaskOwnerOrBoardOwner(method, user, t) ==
    IF method = "DELETE"
    THEN user = tasks[t].owner \/ user = boards[tasks[t].board].owner
    ELSE TRUE

\* TaskDetail.permission_classes, checked in order by get_object(); the actors of
\* this model are authenticated, so IsAuthenticated passes.
TaskDetailPermissions(method, user, t) ==
    /\ IsBoardMember(user, t)
    /\ IsTaskOwnerOrBoardOwner(method, user, t)

\* The owner-or-member test that serializers.py and views.py repeat on a board.
OnBoard(user, b) ==
    ~(user # boards[b].owner /\ user \notin boards[b].members)

\* ------------------------------------------------------------------ board list
\* Board.objects.filter(Q(owner=user) | Q(members=user)): the filter on the
\* many-to-many relation joins the members table, so a board has one row per
\* member (one row with a null member when it has none); the filter keeps the
\* rows whose owner or whose member is the user.
JoinRows(b) ==
    IF boards[b].members = {} THEN {Absent} ELSE boards[b].members

BoardFilter(user) ==
    [b \in DOMAIN boards |->
        Cardinality({m \in JoinRows(b) : boards[b].owner = user \/ m = user})]

\* Variant: the query without .distinct().
NoDistinct(rows) == rows

\* .distinct(): each board that has a row, once.
Distinct(rows) ==
    [b \in DOMAIN rows |-> IF rows[b] > 0 THEN 1 ELSE 0]

get_queryset(user) == Distinct(BoardFilter(user))

\* The exact lookup of the ORM compares strings as the database collation does:
\* byte by byte (SQLite, PostgreSQL) or without regard to case (MySQL's default).
Collations == {"binary", "nocase"}

Lower(string) ==
    CASE string = "To-Do" -> "to-do"
      [] string = "High" -> "high"
      [] OTHER -> string

Exact(stored, literal, collation) ==
    IF collation = "nocase" THEN Lower(stored) = Lower(literal) ELSE stored = literal

\* BoardListSerializer: the four counters of a listed board.
get_member_count(b) == Cardinality(boards[b].members)

get_ticket_count(b) == Cardinality(TasksOfBoard(b))

get_tasks_to_do_count(b, collation) ==
    Cardinality({t \in TasksOfBoard(b) : Exact(tasks[t].status, "To-Do", collation)})

get_tasks_high_prio_count(b, collation) ==
    Cardinality({t \in TasksOfBoard(b) : Exact(tasks[t].status, "High", collation)})

BoardCounters(b, collation) ==
    [member_count |-> get_member_count(b),
     ticket_count |-> get_ticket_count(b),
     tasks_to_do_count |-> get_tasks_to_do_count(b, collation),
     tasks_high_prio_count |-> get_tasks_high_prio_count(b, collation)]

\* GET /boards/ : the boards of get_queryset, each with its counters.
BoardList(actor) ==
    /\ \E collation \in Collations :
         Trace([Request("board_list", actor, Absent, NoBody, "OK")
                    EXCEPT !.result = get_queryset(actor),
                           !.counts = [b \in {x \in DOMAIN boards : get_queryset(actor)[x] > 0}
                                        |-> BoardCounters(b, collation)]])
    /\ UNCHANGED store
    /\ UNCHANGED pending

\* ------------------------------------------------------------------ boards
\* PrimaryKeyRelatedField(many=True, queryset=User.objects.all()): every key
\* must name a user.
MembersValid(members) == members \subseteq Users

\* POST /boards/ : BoardListSerializer.create
BoardCreateResponse(actor, body) ==
    IF body.title = "absent" \/ ~MembersValid(body.members)
    THEN "ValidationError" ELSE "Created"

BoardCreate(actor, body) ==
    LET code == BoardCreateResponse(actor, body) IN
    /\ Trace(Request("board_create", actor, Absent, body, code))
    /\ IF code = "Created"
       THEN /\ boards' = [b \in DOMAIN boards \cup {nextBoardId} |->
                            IF b = nextBoardId
                            THEN [owner |-> actor, title |-> body.title,
                                  members |-> body.members]
                            ELSE boards[b]]
            /\ nextBoardId' = nextBoardId + 1
       ELSE UNCHANGED <<boards, nextBoardId>>
    /\ UNCHANGED <<tasks, comments, nextTaskId, nextCommentId>>
    /\ UNCHANGED pending

\* PATCH /boards/{id} : BoardDetailView.partial_update, BoardUpdateSerializer.update
BoardPatchResponse(actor, b, body) ==
    IF b \notin DOMAIN boards THEN "NotFound"
    ELSE IF ~IsOwnerOrMemberWithDeleteOwnerOnly("PATCH", actor, b) THEN "PermissionDenied"
    ELSE IF body.members # {Absent} /\ ~MembersValid(body.members) THEN "ValidationError"
    ELSE "OK"

\* Variant: the update hands the board to the first of its new members.
UpdateTransfersOwner(board, body) ==
    [board EXCEPT
        !.title = IF body.title # "absent" THEN body.title ELSE @,
        !.members = IF body.members # {Absent} THEN body.members ELSE @,
        !.owner = IF body.members \notin {{Absent}, {}}
                  THEN CHOOSE m \in body.members : TRUE ELSE @]

\* BoardUpdateSerializer.update, the request served alone: the title and the
\* members that the body carries replace the stored ones.
BoardUpdate(board, body) ==
    [board EXCEPT
        !.title = IF body.title # "absent" THEN body.title ELSE @,
        !.members = IF body.members # {Absent} THEN body.members ELSE @]

BoardPatch(actor, b, body) ==
    LET code == BoardPatchResponse(actor, b, body) IN
    /\ Trace(Request("board_patch", actor, b, body, code))
    /\ IF code = "OK"
       THEN boards' = [boards EXCEPT ![b] = BoardUpdate(boards[b], body)]
       ELSE UNCHANGED boards
    /\ UNCHANGED <<tasks, comments, nextBoardId, nextTaskId, nextCommentId>>
    /\ UNCHANGED pending

\* PATCH /boards/{id} as the requests of other clients see it. update() writes
\* twice and nothing in partial_update or update opens a transaction around the
\* two: instance.members.set() replaces the rows of the members table at once,
\* instance.save() writes the board's row (title, owner) afterwards. The first
\* step is the request up to and including members.set(): the lookup, the
\* permission check, the validation, the title put on the loaded instance.
BoardPatchBegin(actor, b, body) ==
    LET code == BoardPatchResponse(actor, b, body) IN
    /\ pending = NoPatch
    /\ IF code = "OK"
       THEN /\ last = NoRequest
            /\ boards' = [boards EXCEPT ![b].members =
                            IF body.members # {Absent} THEN body.members ELSE @]
            /\ pending' = [board |-> b, actor |-> actor,
                           title |-> IF body.title # "absent" THEN body.title
                                     ELSE boards[b].title,
                           owner |-> boards[b].owner,
                           was |-> boards[b].title, had |-> boards[b].members,
                           body |-> body]
            /\ UNCHANGED last
       ELSE /\ Trace(Request("board_patch", actor, b, body, code))
            /\ UNCHANGED <<boards, pending>>
    /\ UNCHANGED <<tasks, comments, nextBoardId, nextTaskId, nextCommentId>>

\* The second step: instance.save() updates the row of the loaded instance, and
\* inserts it when the update finds no row (the board was deleted in between);
\* then the response is built.
BoardPatchSave ==
    LET b == pending.board IN
    /\ pending # NoPatch
    /\ Trace(Request("board_patch", pending.actor, b, pending.body, "OK"))
    /\ boards' = IF b \in DOMAIN boards
                 THEN [boards EXCEPT ![b].title = pending.title,
                                     ![b].owner = pending.owner]
                 ELSE [x \in DOMAIN boards \cup {b} |->
                        IF x = b
                        THEN [owner |-> pending.owner, title |-> pending.title,
                              members |-> {}]
                        ELSE boards[x]]
    /\ pending' = NoPatch
    /\ UNCHANGED <<tasks, comments, nextBoardId, nextTaskId, nextCommentId>>

\* Variant: the board read behind the members-only test of IsBoardMember.
BoardGetMembersOnly(actor, b) ==
    IF b \notin DOMAIN boards THEN "NotFound"
    ELSE IF actor \notin boards[b].members THEN "PermissionDenied"
    ELSE "OK"

\* GET /boards/{id} : BoardDetailView.retrieve; get_object() raises NotFound, then
\* checks the object permissions.
BoardGetResponse(actor, b) ==
    IF b \notin DOMAIN boards THEN "NotFound"
    ELSE IF ~IsOwnerOrMemberWithDeleteOwnerOnly("GET", actor, b) THEN "PermissionDenied"
    ELSE "OK"

BoardGet(actor, b) ==
    LET code == BoardGetResponse(actor, b) IN
    /\ Trace([Request("board_get", actor, b, NoBody, code)
                    EXCEPT !.result = IF code = "OK" THEN boards[b] ELSE <<>>])
    /\ UNCHANGED store
    /\ UNCHANGED pending

\* DELETE /boards/{id} : the board's tasks and their comments go with it
\* (models.py: Task.board and Comment.task are on_delete=CASCADE).
BoardDeleteResponse(actor, b) ==
    IF b \notin DOMAIN boards THEN "NotFound"
    ELSE IF ~IsOwnerOrMemberWithDeleteOwnerOnly("DELETE", actor, b) THEN "PermissionDenied"
    ELSE "NoContent"

\* Variant: Comment.task without the cascade.
DeleteBoardKeepComments(b) ==
    /\ boards' = Restrict(boards, DOMAIN boards \ {b})
    /\ tasks' = Restrict(tasks, DOMAIN tasks \ TasksOfBoard(b))
    /\ comments' = comments

DeleteBoardCascade(b) ==
    LET gone == TasksOfBoard(b) IN
    /\ boards' = Restrict(boards, DOMAIN boards \ {b})
    /\ tasks' = Restrict(tasks, DOMAIN tasks \ gone)
    /\ comments' = Restrict(comments, DOMAIN comments \ CommentsOfTasks(gone))

BoardDelete(actor, b) ==
    LET code == BoardDeleteResponse(actor, b) IN
    /\ Trace(Request("board_delete", actor, b, NoBody, code))
    /\ IF code = "NoContent"
       THEN DeleteBoardCascade(b)
       ELSE UNCHANGED <<boards, tasks, comments>>
    /\ UNCHANGED <<nextBoardId, nextTaskId, nextCommentId>>
    /\ UNCHANGED pending

\* ------------------------------------------------------------------ task create
\* TaskListSerializer.validate_assignee_id / validate_reviewer_id: the outcome of
\* one field's validator against the board the request names. A missing key fails
\* the required IntegerField before the validator runs.
ValidateUserOnBoard(value, b) ==
    IF value = Absent THEN "ValidationError"
    ELSE IF b \notin DOMAIN boards THEN "NotFound"
    ELSE IF value \notin Users THEN "ValidationError"
    ELSE IF ~OnBoard(value, b) THEN "PermissionDenied"
    ELSE "valid"

validate_assignee_id(value, b) == ValidateUserOnBoard(value, b)

\* Variant: the reviewer is looked up but not held against the board.
ReviewerExists(value, b) ==
    IF value = Absent THEN "ValidationError"
    ELSE IF b \notin DOMAIN boards THEN "NotFound"
    ELSE IF value \notin Users THEN "ValidationError"
    ELSE "valid"

validate_reviewer_id(value, b) == ValidateUserOnBoard(value, b)

\* TaskListSerializer.validate: the actor must be owner or member of the board.
validate(actor, b) ==
    IF ~OnBoard(actor, b) THEN "PermissionDenied" ELSE "valid"

\* TaskList.check_user_can_create_task
check_user_can_create_task(actor, b) ==
    IF b \notin DOMAIN boards THEN "NotFound"
    ELSE IF ~OnBoard(actor, b) THEN "PermissionDenied"
    ELSE "valid"

\* TaskListSerializer.resolve_user
resolve_user(user_id) ==
    IF user_id = Absent THEN "valid"
    ELSE IF user_id \notin Users THEN "ValidationError"
    ELSE "valid"

\* POST /tasks/ : the serializer runs the fields in the order of Meta.fields
\* (board, assignee_id, reviewer_id); a field's ValidationError is collected and
\* raised after the last field, any other exception ends the request at once;
\* then validate(), then perform_create() and create().
TaskCreateResponse(actor, body) ==
    LET b == body.board
        asg == validate_assignee_id(body.assignee_id, b)
        rev == validate_reviewer_id(body.reviewer_id, b)
    IN  IF b \notin DOMAIN boards THEN "NotFound"
        ELSE IF asg \in {"NotFound", "PermissionDenied"} THEN asg
        ELSE IF rev \in {"NotFound", "PermissionDenied"} THEN rev
        ELSE IF asg = "ValidationError" \/ rev = "ValidationError" THEN "ValidationError"
        ELSE IF validate(actor, b) # "valid" THEN validate(actor, b)
        ELSE IF check_user_can_create_task(actor, b) # "valid"
             THEN check_user_can_create_task(actor, b)
        ELSE IF resolve_user(body.assignee_id) # "valid" THEN "ValidationError"
        ELSE IF resolve_user(body.reviewer_id) # "valid" THEN "ValidationError"
        ELSE "Created"

\* Task.objects.create(**validated_data) with owner=request.user; a status or a
\* priority that the body does not carry takes the model's default.
NewTask(actor, body) ==
    [board |-> body.board, owner |-> actor,
     assignee |-> body.assignee_id, reviewer |-> body.reviewer_id,
     status |-> IF body.status # "absent" THEN body.status ELSE "to-do",
     priority |-> IF body.priority # "absent" THEN body.priority ELSE "medium"]

TaskCreate(actor, body) ==
    LET code == TaskCreateResponse(actor, body) IN
    /\ Trace(Request("task_create", actor, Absent, body, code))
    /\ IF code = "Created"
       THEN /\ tasks' = [t \in DOMAIN tasks \cup {nextTaskId} |->
                            IF t = nextTaskId THEN NewTask(actor, body) ELSE tasks[t]]
            /\ nextTaskId' = nextTaskId + 1
       ELSE UNCHANGED <<tasks, nextTaskId>>
    /\ UNCHANGED <<boards, comments, nextBoardId, nextCommentId>>
    /\ UNCHANGED pending

\* ------------------------------------------------------------------ task patch, delete
\* TaskDetailSerializer.update: the ids are looked up, nothing else is asked of
\* them; the row is written by the final save() only.
\* Variant: the reviewer id is stored as sent, without the lookup.
ReviewerNotLookedUp(body) ==
    IF body.assignee_id # Absent /\ body.assignee_id \notin Users THEN "ValidationError"
    ELSE "OK"

UpdateResponse(body) ==
    IF body.assignee_id # Absent /\ body.assignee_id \notin Users THEN "ValidationError"
    ELSE IF body.reviewer_id # Absent /\ body.reviewer_id \notin Users THEN "ValidationError"
    ELSE "OK"

\* The key of the ValidationError that update raises: the first id that names no
\* user.
UpdateErrorField(body) ==
    IF body.assignee_id # Absent /\ body.assignee_id \notin Users THEN "assignee_id"
    ELSE IF body.reviewer_id # Absent /\ body.reviewer_id \notin Users THEN "reviewer_id"
    ELSE "none"

update(task, body) ==
    [task EXCEPT
        !.assignee = IF body.assignee_id # Absent THEN body.assignee_id ELSE @,
        !.reviewer = IF body.reviewer_id # Absent THEN body.reviewer_id ELSE @,
        !.status = IF body.status # "absent" THEN body.status ELSE @,
        !.priority = IF body.priority # "absent" THEN body.priority ELSE @]

\* ChoiceField: a status or a priority that the body carries is one of the choices.
ChoicesValid(body) ==
    /\ body.status \in STATUS_CHOICES \cup {"absent"}
    /\ body.priority \in PRIORITY_CHOICES \cup {"absent"}

\* Variant: partial_update without its guard on the board key.
TaskPatchBoardKeyIgnored(actor, t, body) ==
    IF t \notin DOMAIN tasks THEN "NotFound"
    ELSE IF ~TaskDetailPermissions("PATCH", actor, t) THEN "PermissionDenied"
    ELSE IF ~ChoicesValid(body) THEN "ValidationError"
    ELSE UpdateResponse(body)

\* PATCH /tasks/{id} : TaskDetail.partial_update looks at the body before it
\* looks up the task.
TaskPatchResponse(actor, t, body) ==
    IF body.board # Absent THEN "BadRequest"
    ELSE IF t \notin DOMAIN tasks THEN "NotFound"
    ELSE IF ~TaskDetailPermissions("PATCH", actor, t) THEN "PermissionDenied"
    ELSE IF ~ChoicesValid(body) THEN "ValidationError"
    ELSE UpdateResponse(body)

TaskPatch(actor, t, body) ==
    LET code == TaskPatchResponse(actor, t, body) IN
    /\ Trace([Request("task_patch", actor, t, body, code)
                    EXCEPT !.field = IF code # "ValidationError" THEN "none"
                                     ELSE IF body.status \notin STATUS_CHOICES \cup {"absent"}
                                     THEN "status"
                                     ELSE IF body.priority \notin PRIORITY_CHOICES \cup {"absent"}
                                     THEN "priority"
                                     ELSE UpdateErrorField(body)])
    /\ IF code = "OK"
       THEN tasks' = [tasks EXCEPT ![t] = update(tasks[t], body)]
       ELSE UNCHANGED tasks
    /\ UNCHANGED <<boards, comments, nextBoardId, nextTaskId, nextCommentId>>
    /\ UNCHANGED pending

\* DELETE /tasks/{id} : the task's comments go with it.
TaskDeleteResponse(actor, t) ==
    IF t \notin DOMAIN tasks THEN "NotFound"
    ELSE IF ~TaskDetailPermissions("DELETE", actor, t) THEN "PermissionDenied"
    ELSE "NoContent"

DeleteTaskCascade(t) ==
    /\ tasks' = Restrict(tasks, DOMAIN tasks \ {t})
    /\ comments' = Restrict(comments, DOMAIN comments \ CommentsOfTask(t))

TaskDelete(actor, t) ==
    LET code == TaskDeleteResponse(actor, t) IN
    /\ Trace(Request("task_delete", actor, t, NoBody, code))
    /\ IF code = "NoContent"
       THEN DeleteTaskCascade(t)
       ELSE UNCHANGED <<tasks, comments>>
    /\ UNCHANGED <<boards, nextBoardId, nextTaskId, nextCommentId>>
    /\ UNCHANGED pending

\* ------------------------------------------------------------------ my tasks
\* Variant: only the tasks of the boards the user is on.
AssignedOnMyBoards(user) ==
    {t \in DOMAIN tasks : tasks[t].assignee = user /\ OnBoard(user, tasks[t].board)}

\* AssignedToMeTaskList.get_queryset: Task.objects.filter(assignee=request.user)
AssignedToMe(user) == {t \in DOMAIN tasks : tasks[t].assignee = user}

\* ReviewingList.get_queryset: Task.objects.filter(reviewer=request.user)
Reviewing(user) == {t \in DOMAIN tasks : tasks[t].reviewer = user}

\* GET /tasks/assigned-to-me/
AssignedToMeTaskList(actor) ==
    /\ Trace([Request("assigned_to_me", actor, Absent, NoBody, "OK")
                    EXCEPT !.result = AssignedToMe(actor)])
    /\ UNCHANGED store
    /\ UNCHANGED pending

\* GET /tasks/reviewing/
ReviewingList(actor) ==
    /\ Trace([Request("reviewing", actor, Absent, NoBody, "OK")
                    EXCEPT !.result = Reviewing(actor)])
    /\ UNCHANGED store
    /\ UNCHANGED pending

\* ------------------------------------------------------------------ comments
\* Variant: the members of the board only, its owner left out.
MembersOnlyForComments(user, t) ==
    IF t \notin DOMAIN tasks THEN FALSE
    ELSE user \in boards[tasks[t].board].members

\* IsBoardMemberForComments.has_permission: no task, no permission.
IsBoardMemberForComments(user, t) ==
    IF t \notin DOMAIN tasks THEN FALSE
    ELSE user = boards[tasks[t].board].owner \/ user \in boards[tasks[t].board].members

\* POST /tasks/{task_id}/comments/ : CommentList.perform_create
CommentCreateResponse(actor, t) ==
    IF ~IsBoardMemberForComments(actor, t) THEN "PermissionDenied"
    ELSE IF t \notin DOMAIN tasks THEN "NotFound"
    ELSE "Created"

CommentCreate(actor, t) ==
    LET code == CommentCreateResponse(actor, t) IN
    /\ Trace(Request("comment_create", actor, t, NoBody, code))
    /\ IF code = "Created"
       THEN /\ comments' = [c \in DOMAIN comments \cup {nextCommentId} |->
                              IF c = nextCommentId
                              THEN [task |-> t, author |-> actor]
                              ELSE comments[c]]
            /\ nextCommentId' = nextCommentId + 1
       ELSE UNCHANGED <<comments, nextCommentId>>
    /\ UNCHANGED <<boards, tasks, nextBoardId, nextTaskId>>
    /\ UNCHANGED pending

\* GET /tasks/{task_id}/comments/ : CommentList.get_queryset, behind the same
\* has_permission as the POST.
CommentListResponse(actor, t) ==
    IF ~IsBoardMemberForComments(actor, t) THEN "PermissionDenied" ELSE "OK"

CommentList(actor, t) ==
    LET code == CommentListResponse(actor, t) IN
    /\ Trace([Request("comment_list", actor, t, NoBody, code)
                    EXCEPT !.result = IF code = "OK" THEN CommentsOfTask(t) ELSE <<>>])
    /\ UNCHANGED store
    /\ UNCHANGED pending

\* DELETE /tasks/{task_id}/comments/{id} : CommentDestroy; the queryset holds the
\* comments of the task in the URL, perform_destroy asks for the author.
\* Variant: the board owner may delete any comment on the board.
DestroyByAuthorOrBoardOwner(actor, c) ==
    IF comments[c].author # actor /\ boards[tasks[comments[c].task].board].owner # actor
    THEN "PermissionDenied" ELSE "NoContent"

perform_destroy(actor, c) ==
    IF comments[c].author # actor THEN "PermissionDenied" ELSE "NoContent"

CommentDestroyResponse(actor, t, c) ==
    IF c \notin CommentsOfTask(t) THEN "NotFound"
    ELSE perform_destroy(actor, c)

CommentDestroy(actor, t, c) ==
    LET code == CommentDestroyResponse(actor, t, c) IN
    /\ Trace([Request("comment_delete", actor, c, NoBody, code) EXCEPT !.task = t])
    /\ IF code = "NoContent"
       THEN comments' = Restrict(comments, DOMAIN comments \ {c})
       ELSE UNCHANGED comments
    /\ UNCHANGED <<boards, tasks, nextBoardId, nextTaskId, nextCommentId>>
    /\ UNCHANGED pending

\* ------------------------------------------------------------------ specification
Init ==
    /\ boards = <<>>
    /\ tasks = <<>>
    /\ comments = <<>>
    /\ nextBoardId = 1
    /\ nextTaskId = 1
    /\ nextCommentId = 1
    /\ last = NoRequest
    /\ pending = NoPatch

\* The request bodies Spec sends.
MemberInputs == SUBSET Users \cup {{Ghost}}
BoardBodies == {[NoBody EXCEPT !.title = "a", !.members = m] : m \in MemberInputs}
BoardPatchBodies == BoardBodies \cup {NoBody}
UserIdInputs == Users \cup {Ghost}
TaskCreateBodies(ids) ==
    {[NoBody EXCEPT !.board = b, !.assignee_id = a, !.reviewer_id = r] :
        b \in ids, a \in UserIdInputs, r \in UserIdInputs}
TaskPatchBodies ==
    {[NoBody EXCEPT !.assignee_id = a] : a \in UserIdInputs}
    \cup {[NoBody EXCEPT !.reviewer_id = r] : r \in UserIdInputs}
    \cup {[NoBody EXCEPT !.assignee_id = a, !.reviewer_id = Ghost, !.status = "done"] :
            a \in UserIdInputs}
    \cup {[NoBody EXCEPT !.status = "done"],
          [NoBody EXCEPT !.board = 1, !.status = "done"]}

\* The keys a request may name: those handed out so far and the next one, which
\* names no row yet.
BoardIds == 1..(MaxBoards + 1)
TaskIds == 1..(MaxTasks + 1)
CommentIds == 1..(MaxComments + 1)

Next ==
    \/ \E actor \in Users : BoardList(actor)
    \/ \E actor \in Users, body \in BoardBodies :
            nextBoardId <= MaxBoards /\ BoardCreate(actor, body)
    \/ \E actor \in Users, b \in BoardIds, body \in BoardPatchBodies : BoardPatch(actor, b, body)
    \/ \E actor \in Users, b \in BoardIds : BoardDelete(actor, b)
    \/ \E actor \in Users, body \in TaskCreateBodies(BoardIds) :
            nextTaskId <= MaxTasks /\ TaskCreate(actor, body)
    \/ \E actor \in Users, t \in TaskIds, body \in TaskPatchBodies : TaskPatch(actor, t, body)
    \/ \E actor \in Users, t \in TaskIds : TaskDelete(actor, t)
    \/ \E actor \in Users, t \in TaskIds :
            nextCommentId <= MaxComments /\ CommentCreate(actor, t)
    \/ \E actor \in Users, t \in TaskIds, c \in CommentIds : CommentDestroy(actor, t, c)
    \/ \E actor \in Users, t \in TaskIds : CommentList(actor, t)
    \/ \E actor \in Users : AssignedToMeTaskList(actor)
    \/ \E actor \in Users : ReviewingList(actor)

Spec == Init /\ [][Next]_vars

\* SpecCascade: two boards, two tasks and two comments, two of the users acting;
\* a created task is assigned to and reviewed by its creator and is not patched.
CascadeActors == {1, 2}
CascadeMemberInputs == {{}, {2}, {1, 2}}
CascadeBoardBodies ==
    {[NoBody EXCEPT !.title = "a", !.members = m] : m \in CascadeMemberInputs}
CascadeBoardIds == 1..CascadeBoards
CascadeTaskIds == 1..CascadeTasks
CascadeCommentIds == 1..CascadeComments
CascadeTaskBodies(actor) ==
    {[NoBody EXCEPT !.board = b, !.assignee_id = actor, !.reviewer_id = actor] :
        b \in CascadeBoardIds}

NextCascade ==
    \/ \E actor \in CascadeActors : BoardList(actor)
    \/ \E actor \in CascadeActors, body \in CascadeBoardBodies :
            nextBoardId <= CascadeBoards /\ BoardCreate(actor, body)
    \/ \E actor \in CascadeActors, b \in CascadeBoardIds, body \in CascadeBoardBodies :
            BoardPatch(actor, b, body)
    \/ \E actor \in CascadeActors, b \in CascadeBoardIds : BoardDelete(actor, b)
    \/ \E actor \in CascadeActors : \E body \in CascadeTaskBodies(actor) :
            nextTaskId <= CascadeTasks /\ TaskCreate(actor, body)
    \/ \E actor \in CascadeActors, t \in CascadeTaskIds : TaskDelete(actor, t)
    \/ \E actor \in CascadeActors, t \in CascadeTaskIds :
            nextCommentId <= CascadeComments /\ CommentCreate(actor, t)
    \/ \E actor \in CascadeActors, t \in CascadeTaskIds, c \in CascadeCommentIds :
            CommentDestroy(actor, t, c)

SpecCascade == Init /\ [][NextCascade]_vars

\* SpecBoard: one board read, renamed, re-membered and deleted by its owner, a
\* member and an outsider; the task and the comment on it belong to their creator.
BoardMemberInputs == {{}, {1}, {2, 3}}
BoardCreateBodies ==
    {[NoBody EXCEPT !.title = "a", !.members = m] : m \in BoardMemberInputs}
BoardDetailBodies ==
    {[NoBody EXCEPT !.title = "b"], [NoBody EXCEPT !.members = {Ghost}]}
    \cup {[NoBody EXCEPT !.members = m] : m \in BoardMemberInputs}
    \cup {[NoBody EXCEPT !.title = "b", !.members = m] : m \in BoardMemberInputs}
BoardTaskBodies(actor) ==
    {[NoBody EXCEPT !.board = b, !.assignee_id = actor, !.reviewer_id = actor,
                    !.priority = p] :
        b \in BoardIds, p \in {"absent", "high"}}

NextBoard ==
    \/ \E actor \in Users : BoardList(actor)
    \/ \E actor \in Users, body \in BoardCreateBodies :
            nextBoardId <= MaxBoards /\ BoardCreate(actor, body)
    \/ \E actor \in Users, b \in BoardIds : BoardGet(actor, b)
    \/ \E actor \in Users, b \in BoardIds, body \in BoardDetailBodies :
            BoardPatch(actor, b, body)
    \/ \E actor \in Users, b \in BoardIds : BoardDelete(actor, b)
    \/ \E actor \in Users : \E body \in BoardTaskBodies(actor) :
            nextTaskId <= MaxTasks /\ TaskCreate(actor, body)
    \/ \E actor \in Users, t \in TaskIds :
            TaskPatch(actor, t, [NoBody EXCEPT !.status = "done"])
    \/ \E actor \in Users, t \in TaskIds : TaskDelete(actor, t)
    \/ \E actor \in Users, t \in TaskIds :
            nextCommentId <= MaxComments /\ CommentCreate(actor, t)
    \/ \E actor \in Users, t \in TaskIds, c \in CommentIds : CommentDestroy(actor, t, c)

SpecBoard == Init /\ [][NextBoard]_vars

\* SpecAtomic: the requests on one board as they interleave with the two writes
\* of a board PATCH.
NextAtomic ==
    \/ \E actor \in Users, body \in BoardCreateBodies :
            nextBoardId <= MaxBoards /\ BoardCreate(actor, body)
    \/ \E actor \in Users, b \in BoardIds : BoardGet(actor, b)
    \/ \E actor \in Users, b \in BoardIds, body \in BoardDetailBodies :
            BoardPatchBegin(actor, b, body)
    \/ BoardPatchSave
    \/ \E actor \in Users, b \in BoardIds : BoardDelete(actor, b)

SpecAtomic == Init /\ [][NextAtomic]_vars

\* ------------------------------------------------------------------ claims
\* The traced request succeeded.
Succeeded == last.code \in {"OK", "Created", "NoContent"}

\* C1: a PATCH without a board key on an existing task is authorized exactly when
\* the actor is the owner of the task's board or one of its members. (A PATCH
\* changes neither the board's owner nor its members, so the state after the
\* request tells who was on the board.)
C1_PatchAuthorizedIffOnBoard ==
    (last.op = "task_patch" /\ last.body.board = Absent /\ last.id \in DOMAIN tasks)
        => ((last.code # "PermissionDenied") <=> OnBoard(last.actor, tasks[last.id].board))

\* C2: a task create or task PATCH that succeeds and carries an assignee or a
\* reviewer names a user who is the owner or a member of the task's board.
AssignedTask == IF last.op = "task_create" THEN nextTaskId - 1 ELSE last.id

C2_AssignedUsersAreOnBoard ==
    (last.op \in {"task_create", "task_patch"} /\ Succeeded)
        => /\ last.body.assignee_id # Absent
                => OnBoard(last.body.assignee_id, tasks[AssignedTask].board)
           /\ last.body.reviewer_id # Absent
                => OnBoard(last.body.reviewer_id, tasks[AssignedTask].board)

\* C3: DELETE on an existing task succeeds exactly when the actor is owner or
\* member of the task's board and is the task's owner or the board's owner;
\* otherwise it is denied and the task and its comments remain.
TaskDeleteAllowed(actor, t) ==
    /\ OnBoard(actor, tasks[t].board)
    /\ (actor = tasks[t].owner \/ actor = boards[tasks[t].board].owner)

C3_TaskDeleteStep ==
    (last'.op = "task_delete" /\ last'.id \in DOMAIN tasks)
        => IF TaskDeleteAllowed(last'.actor, last'.id)
           THEN last'.code = "NoContent" /\ last'.id \notin DOMAIN tasks'
           ELSE last'.code = "PermissionDenied" /\ tasks' = tasks /\ comments' = comments

C3_TaskDeleteIffOwnerOnBoard == [][C3_TaskDeleteStep]_vars

\* C4: the board list returned to an actor holds a board exactly when the actor
\* is its owner or one of its members, and holds it once.
C4_BoardListOwnedOrJoinedOnce ==
    last.op = "board_list"
        => /\ DOMAIN last.result = DOMAIN boards
           /\ \A b \in DOMAIN boards :
                last.result[b] = IF OnBoard(last.actor, b) THEN 1 ELSE 0

\* The actor lists the boards while owning a board of which they and another
\* user are members: the join has two rows for that board.
C4_Witness ==
    /\ last.op = "board_list"
    /\ \E b \in DOMAIN boards :
        /\ boards[b].owner = last.actor
        /\ last.actor \in boards[b].members
        /\ Cardinality(boards[b].members) >= 2
        /\ last.result[b] = 1
    /\ \E b \in DOMAIN boards : last.result[b] = 0

\* C5: DELETE on a board by a member who is not its owner is denied and leaves
\* boards, tasks and comments as they were; DELETE by the owner succeeds and the
\* board is gone, whether or not the owner is a member.
C5_BoardDeleteStep ==
    (last'.op = "board_delete" /\ last'.id \in DOMAIN boards)
        => LET b == last'.id
               actor == last'.actor
           IN  /\ actor = boards[b].owner
                    => last'.code = "NoContent" /\ b \notin DOMAIN boards'
               /\ (actor # boards[b].owner /\ actor \in boards[b].members)
                    => /\ last'.code = "PermissionDenied"
                       /\ UNCHANGED <<boards, tasks, comments>>

C5_BoardDeleteOwnerOnly == [][C5_BoardDeleteStep]_vars

\* A member who is not the owner was denied the delete of a board that holds a
\* commented task.
C5_Witness ==
    /\ last.op = "board_delete"
    /\ last.code = "PermissionDenied"
    /\ last.id \in DOMAIN boards
    /\ last.actor \in boards[last.id].members
    /\ \E t \in TasksOfBoard(last.id) : CommentsOfTask(t) # {}

\* C6: every task's board exists and every comment's task exists; a board delete
\* removes the board's tasks and their comments, a task delete removes the task's
\* comments, and neither removes or changes a task or comment of another board.
ReferentialIntegrity ==
    /\ \A t \in DOMAIN tasks : tasks[t].board \in DOMAIN boards
    /\ \A c \in DOMAIN comments : comments[c].task \in DOMAIN tasks

BoardOfComment(c) == tasks[comments[c].task].board

C6_CascadeStep ==
    /\ (last'.op = "board_delete" /\ last'.code = "NoContent")
        => LET b == last'.id IN
           /\ \A t \in DOMAIN tasks :
                IF tasks[t].board = b THEN t \notin DOMAIN tasks'
                ELSE t \in DOMAIN tasks' /\ tasks'[t] = tasks[t]
           /\ \A c \in DOMAIN comments :
                IF BoardOfComment(c) = b THEN c \notin DOMAIN comments'
                ELSE c \in DOMAIN comments' /\ comments'[c] = comments[c]
    /\ (last'.op = "task_delete" /\ last'.code = "NoContent")
        => LET gone == last'.id IN
           /\ \A t \in DOMAIN tasks \ {gone} :
                t \in DOMAIN tasks' /\ tasks'[t] = tasks[t]
           /\ \A c \in DOMAIN comments :
                IF comments[c].task = gone THEN c \notin DOMAIN comments'
                ELSE c \in DOMAIN comments' /\ comments'[c] = comments[c]

C6_ReferentialIntegrityAndCascade ==
    []ReferentialIntegrity /\ [][C6_CascadeStep]_vars

\* A board was deleted after two tasks and two comments had been created, and a
\* commented task of the other board is still there.
C6_Witness ==
    /\ last.op = "board_delete"
    /\ last.code = "NoContent"
    /\ nextTaskId = CascadeTasks + 1
    /\ nextCommentId = CascadeComments + 1
    /\ Cardinality(DOMAIN tasks) = 1
    /\ Cardinality(DOMAIN comments) = 1

\* C7: DELETE of a comment, addressed through its task, succeeds exactly when the
\* actor is the comment's author; anyone else is denied and the comment remains.
C7_CommentDeleteStep ==
    (last'.op = "comment_delete" /\ last'.id \in CommentsOfTask(last'.task))
        => IF comments[last'.id].author = last'.actor
           THEN last'.code = "NoContent" /\ last'.id \notin DOMAIN comments'
           ELSE last'.code = "PermissionDenied" /\ comments' = comments

C7_CommentDeleteAuthorOnly == [][C7_CommentDeleteStep]_vars

\* The owner of the board, who also owns the task, was denied the delete of
\* another user's comment.
C7_Witness ==
    /\ last.op = "comment_delete"
    /\ last.code = "PermissionDenied"
    /\ last.id \in DOMAIN comments
    /\ last.actor = boards[BoardOfComment(last.id)].owner
    /\ last.actor = tasks[comments[last.id].task].owner
    /\ comments[last.id].author \notin boards[BoardOfComment(last.id)].members

\* C8: a task create on an existing board whose assignee_id or reviewer_id names
\* an existing user who is neither owner nor member of that board fails with a
\* ValidationError or PermissionDenied and creates no task, whoever the actor is.
OutsiderOf(user, b) == user \in Users /\ ~OnBoard(user, b)

C8_CreateStep ==
    (/\ last'.op = "task_create"
     /\ last'.body.board \in DOMAIN boards
     /\ \/ OutsiderOf(last'.body.assignee_id, last'.body.board)
        \/ OutsiderOf(last'.body.reviewer_id, last'.body.board))
        => /\ last'.code \in {"ValidationError", "PermissionDenied"}
           /\ tasks' = tasks

C8_OutsiderAssignmentRejected == [][C8_CreateStep]_vars

\* The board owner tried to create a task with themselves as assignee and an
\* outsider as reviewer.
C8_Witness ==
    /\ last.op = "task_create"
    /\ last.body.board \in DOMAIN boards
    /\ last.actor = boards[last.body.board].owner
    /\ last.body.assignee_id = last.actor
    /\ OutsiderOf(last.body.reviewer_id, last.body.board)
    /\ last.code = "PermissionDenied"

\* C9: no step changes the board of a task; a PATCH whose body has a board key is
\* answered 400 whoever the actor is and leaves every task as it was.
C9_BoardStep ==
    /\ \A t \in DOMAIN tasks \cap DOMAIN tasks' : tasks'[t].board = tasks[t].board
    /\ (last'.op = "task_patch" /\ last'.body.board # Absent)
        => HttpStatus(last'.code) = 400 /\ tasks' = tasks

C9_TaskBoardImmutable == [][C9_BoardStep]_vars

\* A member of the board sent {board, status: done} for a task that is to-do.
C9_Witness ==
    /\ last.op = "task_patch"
    /\ last.body.board # Absent
    /\ last.body.status = "done"
    /\ last.id \in DOMAIN tasks
    /\ last.actor \in boards[tasks[last.id].board].members
    /\ last.code = "BadRequest"
    /\ tasks[last.id].status = "to-do"

\* C10: a task create on an existing board succeeds only for the owner or a
\* member of the board, any other actor gets PermissionDenied, and a created task
\* has the actor as owner and the requested board as board.
C10_TaskCreateAuthorized ==
    (last.op = "task_create" /\ last.body.board \in DOMAIN boards)
        => /\ last.code = "Created"
                => /\ OnBoard(last.actor, last.body.board)
                   /\ tasks[nextTaskId - 1].owner = last.actor
                   /\ tasks[nextTaskId - 1].board = last.body.board
           /\ ~OnBoard(last.actor, last.body.board)
                => last.code = "PermissionDenied"

\* C11: on an existing task, listing its comments and creating a comment are
\* allowed exactly when the actor is the owner or a member of the task's board;
\* a list answers with the comments of that task, a denied create adds no
\* comment, and a successful create adds exactly one comment, written by the
\* actor on the task of the URL.
C11_CommentStep ==
    (last = NoRequest /\ last'.op \in {"comment_list", "comment_create"}
        /\ last'.id \in DOMAIN tasks) =>
    LET t == last'.id
        allowed == last'.code \in {"OK", "Created"}
        added == DOMAIN comments' \ DOMAIN comments
    IN  /\ allowed <=> OnBoard(last'.actor, tasks[t].board)
        /\ ~allowed => last'.code = "PermissionDenied" /\ comments' = comments
        /\ (allowed /\ last'.op = "comment_list") =>
                last'.result = CommentsOfTask(t) /\ comments' = comments
        /\ (allowed /\ last'.op = "comment_create") =>
                /\ Cardinality(added) = 1
                /\ DOMAIN comments \subseteq DOMAIN comments'
                /\ \A c \in DOMAIN comments : comments'[c] = comments[c]
                /\ \A c \in added : comments'[c] = [task |-> t, author |-> last'.actor]

C11_CommentsOwnerOrMember == [][C11_CommentStep]_vars

\* A comment created by the owner of the board, who is not one of its members.
C11_Witness ==
    /\ last.op = "comment_create"
    /\ last.code = "Created"
    /\ \E c \in DOMAIN comments :
            /\ comments[c] = [task |-> last.id, author |-> last.actor]
            /\ boards[tasks[last.id].board].owner = last.actor
            /\ last.actor \notin boards[tasks[last.id].board].members
\* C14: listing or creating comments under a task id that names no task fails
\* with NotFound (404), which tells it from the PermissionDenied (403) given to
\* an actor without access to the board, and no comment is created.
C14_MissingTaskIsNotFound ==
    (last.op \in {"comment_list", "comment_create"} /\ last.id \notin DOMAIN tasks)
        => /\ last.code = "NotFound"
           /\ HttpStatus(last.code) = 404
           /\ CommentsOfTask(last.id) = {}

\* C12: reading and patching an existing board are allowed exactly when the
\* actor is its owner or one of its members, and the owner passes the read, the
\* update and the delete check whatever the members set has been made by then.
C12_BoardStep ==
    (last = NoRequest /\ last'.op \in {"board_get", "board_patch", "board_delete"}
        /\ last'.id \in DOMAIN boards) =>
    LET b == last'.id
        allowed == last'.code # "PermissionDenied"
    IN  /\ last'.op \in {"board_get", "board_patch"} =>
                (allowed <=> OnBoard(last'.actor, b))
        /\ last'.actor = boards[b].owner => allowed
        /\ (last'.op = "board_get" /\ allowed) =>
                last'.code = "OK" /\ last'.result = boards[b]

C12_BoardReadUpdateOwnerOrMember == [][C12_BoardStep]_vars

\* The owner reads the board after it was renamed and its members set emptied.
C12_Witness ==
    /\ last.op = "board_get"
    /\ last.code = "OK"
    /\ last.actor = boards[last.id].owner
    /\ boards[last.id].members = {}
    /\ boards[last.id].title = "b"

\* C13: the owner of a board is the actor who created it, and no later request
\* changes it: not a board PATCH of title or members, not a task or comment
\* request.
C13_OwnerStep ==
    /\ \A b \in DOMAIN boards \cap DOMAIN boards' : boards'[b].owner = boards[b].owner
    /\ (last = NoRequest /\ last'.op = "board_create" /\ last'.code = "Created") =>
            /\ DOMAIN boards' # DOMAIN boards
            /\ \A b \in DOMAIN boards' \ DOMAIN boards : boards'[b].owner = last'.actor

C13_OwnerIsCreatorForever == [][C13_OwnerStep]_vars

\* A member who is not the owner has renamed the board and replaced its members
\* by a set without the owner.
C13_Witness ==
    /\ last.op = "board_patch"
    /\ last.code = "OK"
    /\ last.body.title = "b"
    /\ last.body.members # {Absent}
    /\ last.actor # boards[last.id].owner
    /\ boards[last.id].owner \notin boards[last.id].members
    /\ boards[last.id].title = "b"
\* C15: the counters of every listed board equal what the store holds:
\* member_count the number of members, ticket_count the number of tasks on the
\* board, tasks_to_do_count the number of its tasks with status "to-do" and
\* tasks_high_prio_count the number of its tasks with priority "high".
C15_CountersMatchStore ==
    last.op = "board_list" =>
        \A b \in DOMAIN last.counts :
            /\ last.counts[b].member_count = Cardinality(boards[b].members)
            /\ last.counts[b].ticket_count =
                    Cardinality({t \in DOMAIN tasks : tasks[t].board = b})
            /\ last.counts[b].tasks_to_do_count =
                    Cardinality({t \in DOMAIN tasks :
                                    tasks[t].board = b /\ tasks[t].status = "to-do"})
            /\ last.counts[b].tasks_high_prio_count =
                    Cardinality({t \in DOMAIN tasks :
                                    tasks[t].board = b /\ tasks[t].priority = "high"})

\* C16: a task create by an actor who is neither owner nor member of the
\* existing target board is answered with PermissionDenied whatever assignee_id
\* and reviewer_id it carries, so the answer is the same for every pair of ids.
C16_AuthorizationBeforeValidation ==
    (last.op = "task_create" /\ last.body.board \in DOMAIN boards
        /\ ~OnBoard(last.actor, last.body.board))
        => \A a \in UserIdInputs, r \in UserIdInputs :
              /\ TaskCreateResponse(last.actor,
                    [last.body EXCEPT !.assignee_id = a, !.reviewer_id = r]) = last.code
              /\ last.code = "PermissionDenied"

\* C17: a board PATCH that carries a title and a members set is applied as one
\* step: a request served while the PATCH is under way reads the board either
\* with the title and the members it had before or with those of the body,
\* never with the one replaced and the other not.
C17_PatchAtomic ==
    (last.op = "board_get" /\ last.code = "OK" /\ pending.board = last.id
        /\ pending.body.title # "absent" /\ pending.body.members # {Absent})
        => \/ last.result.title = pending.was /\ last.result.members = pending.had
           \/ /\ last.result.title = pending.body.title
              /\ last.result.members = pending.body.members

\* C18: a task PATCH with an assignee_id or a reviewer_id that names no user
\* leaves the stored task as it was and does not succeed; when it reaches the
\* serializer (no board key, the task exists, the actor passes the permission
\* checks) it fails with a ValidationError under the name of such a field, also
\* when the other id is valid and a status is sent along.
C18_PatchStep ==
    (last = NoRequest /\ last'.op = "task_patch"
        /\ (last'.body.assignee_id \notin Users \cup {Absent}
                \/ last'.body.reviewer_id \notin Users \cup {Absent})) =>
    /\ tasks' = tasks
    /\ last'.code \notin {"OK", "Created", "NoContent"}
    /\ (last'.body.board = Absent /\ last'.id \in DOMAIN tasks
            /\ TaskDetailPermissions("PATCH", last'.actor, last'.id)) =>
          /\ last'.code = "ValidationError"
          /\ last'.field \in {"assignee_id", "reviewer_id"}
          /\ last'.body[last'.field] \notin Users \cup {Absent}

C18_UnknownUserLeavesTaskUnchanged == [][C18_PatchStep]_vars

\* A PATCH with a valid assignee_id, an unknown reviewer_id and a new status was
\* refused under reviewer_id, and the task has neither the assignee nor the
\* status of the body.
C18_Witness ==
    /\ last.op = "task_patch"
    /\ last.code = "ValidationError"
    /\ last.field = "reviewer_id"
    /\ last.body.assignee_id \in Users
    /\ last.body.status = "done"
    /\ last.id \in DOMAIN tasks
    /\ tasks[last.id].assignee # last.body.assignee_id
    /\ tasks[last.id].status # "done"

\* C19: the assigned-to-me list of an actor is exactly the tasks whose assignee
\* is the actor and the reviewing list exactly those whose reviewer is the
\* actor, whatever boards the actor is on; a request that changes a board and
\* deletes none leaves every task, its assignee and its reviewer as they were.
C19_ListStep ==
    /\ (last = NoRequest /\ last'.op = "assigned_to_me") =>
            last'.result = {t \in DOMAIN tasks : tasks[t].assignee = last'.actor}
    /\ (last = NoRequest /\ last'.op = "reviewing") =>
            last'.result = {t \in DOMAIN tasks : tasks[t].reviewer = last'.actor}
    /\ (boards' # boards /\ DOMAIN boards' = DOMAIN boards) => tasks' = tasks

C19_MyTasksIgnoreBoardAccess == [][C19_ListStep]_vars

\* The list holds a task of a board on which the actor is neither owner nor
\* member.
C19_Witness ==
    /\ last.op = "assigned_to_me"
    /\ \E t \in last.result :
            /\ tasks[t].assignee = last.actor
            /\ ~OnBoard(last.actor, tasks[t].board)
====
